---- MODULE Spec2Model ----
(***************************************************************************)
(* Model of the Node binding client of sgl-router                          *)
(* (src/sgl-router/bindings/node/client.js): the SglangClient facade over  *)
(* the native connection handle `inner`, with its unary chatCompletion     *)
(* path, its async-iterator branch and the callback bridge                 *)
(* chatCompletionStream.                                                   *)
(*                                                                         *)
(* A "call" is one invocation of a public method on the client.  Calls are *)
(* numbered in invocation order.  For each call the model keeps what the   *)
(* facade passed to the connection handle, what the transport passed back  *)
(* (callback invocations, promise settlement) and what the consumer        *)
(* observed (onChunk / onError invocations, promise outcome, iteration     *)
(* results).                                                               *)
(***************************************************************************)
EXTENDS Integers, Sequences, FiniteSets, TLC

\* ---------------------------------------------------------------- bounds
MaxCalls == 2        \* number of public-method invocations on the client
MaxDeliveries == 3   \* deliveries by the transport (stream callback
                     \* invocations and unary settlements), all calls
MaxIterSteps == 1    \* next() steps taken on one async-iterator handle

Calls == 1..MaxCalls

\* ------------------------------------------------------------- JS values
\* Every JavaScript value is a record [t |-> type, v |-> text].
JSNull == [t |-> "null", v |-> ""]
JSUndefined == [t |-> "undefined", v |-> ""]
JSString(s) == [t |-> "string", v |-> s]
JSObject(s) == [t |-> "object", v |-> s]
JSError(s) == [t |-> "error", v |-> s]

\* if (x): null, undefined and the empty string are falsy; objects, errors
\* and non-empty strings are truthy.
Truthy(x) == /\ x.t \notin {"null", "undefined"}
             /\ ~(x.t = "string" /\ x.v = "")
             /\ ~(x.t = "boolean" /\ x.v = "false")

\* The request record of the caller: only the stream flag decides the path.
\* "absent" is a request without a stream field (as in the unary test).
StreamFlags == {"true", "false", "absent"}
Requests == [stream : StreamFlags]

\* request.stream as a JS value
RequestStream(req) ==
    CASE req.stream = "true" -> [t |-> "boolean", v |-> "true"]
      [] req.stream = "false" -> [t |-> "boolean", v |-> "false"]
      [] OTHER -> JSUndefined

\* if (request.stream)
StreamRequested(req) == Truthy(RequestStream(req))

\* JSON.stringify(request): an absent field is left out of the text.
JSONStringify(req) ==
    CASE req.stream = "true" -> "{\"model\":\"m\",\"stream\":true}"
      [] req.stream = "false" -> "{\"model\":\"m\",\"stream\":false}"
      [] OTHER -> "{\"model\":\"m\"}"

\* Texts the transport can hand back (stream payloads and unary responses).
HeText == "{\"c\":\"He\"}"
HeSpacedText == "{ \"c\": \"He\" }"
LloText == "{\"c\":\"llo\"}"
NullText == "null"
NullSpacedText == " null"
TruncatedText == "{\"c\":"

\* JSON.parse(text): a result [ok, val]; ok = FALSE is a thrown SyntaxError.
\* Insignificant whitespace is dropped, so two texts can give one value; a
\* non-string argument is converted to text first ("undefined" is no JSON).
JSONParse(x) ==
    IF x.t = "null" THEN [ok |-> TRUE, val |-> JSNull]
    ELSE IF x.t # "string" THEN [ok |-> FALSE, val |-> JSError("SyntaxError")]
    ELSE CASE x.v \in {HeText, HeSpacedText} ->
                    [ok |-> TRUE, val |-> JSObject("He")]
           [] x.v = LloText -> [ok |-> TRUE, val |-> JSObject("llo")]
           [] x.v \in {NullText, NullSpacedText} ->
                    [ok |-> TRUE, val |-> JSNull]
           [] OTHER -> [ok |-> FALSE, val |-> JSError("SyntaxError")]

\* ------------------------------------------------------ transport inputs
\* One invocation of the stream callback: err is null (no error) or an
\* error, chunk is null or a text, and throws says whether the consumer's
\* onChunk raises when it is handed the parsed chunk.
NoError == JSNull
TransportError == JSError("TransportError")
StreamTexts == {HeText, LloText, NullText, NullSpacedText, TruncatedText}
StreamInputs ==
    {[err |-> NoError, chunk |-> ch, throws |-> FALSE] :
        ch \in {JSNull} \cup {JSString(s) : s \in StreamTexts}}
    \cup {[err |-> TransportError, chunk |-> ch, throws |-> FALSE] :
            ch \in {JSNull, JSString(HeText)}}
    \cup {[err |-> NoError, chunk |-> JSString(HeText), throws |-> TRUE]}
\* The invocations drawn when several streams interleave.
InterleavedInputs ==
    {in \in StreamInputs :
        /\ ~in.throws
        /\ in.chunk \in {JSNull, JSString(HeText), JSString(LloText)}
        /\ (in.err = TransportError => in.chunk = JSNull)}
\* Settlement of the promise returned by inner.chatCompletion.
UnaryResults == {[ok |-> FALSE, val |-> TransportError]}
                \cup {[ok |-> TRUE, val |-> JSString(s)] :
                        s \in {HeText, HeSpacedText, TruncatedText}}

VARIABLES
    op,         \* op[c]: public method invoked as call c ("none" = not yet)
    request,    \* request[c]: the request record passed to call c
    pc,         \* pc[c]: position of call c
    inner,      \* inner[c]: calls made on the connection handle by call c
    live,       \* live[c]: the transport may still invoke the callback
    transport,  \* transport[c]: callback invocations made by the transport
    consumer,   \* consumer[c]: onChunk / onError invocations, in order
    outcome,    \* outcome[c]: settlements of the promise of chatCompletion
    iter,       \* iter[c]: results of next() on the async-iterator handle
    cancelled,  \* cancelled[c]: the consumer has asked to cancel stream c
    client      \* the own properties of the SglangClient instance (this)

vars == <<op, request, pc, inner, live, transport, consumer, outcome, iter,
          cancelled, client>>

\* ------------------------------------------------------------ helpers
RECURSIVE SumLen(_, _)
SumLen(f, S) ==
    IF S = {} THEN 0
    ELSE LET c == CHOOSE x \in S : TRUE
         IN Len(f[c]) + SumLen(f, S \ {c})

\* Calls are numbered in invocation order.
NextCall(c) == /\ op[c] = "none"
               /\ \A d \in Calls : d < c => op[d] # "none"

\* Number of deliveries the transport has made so far, over all calls.
DeliveriesMade == SumLen(transport, Calls)

OnChunk(val, cb) == [kind |-> "chunk", val |-> val, cb |-> cb]
OnError(val, cb) == [kind |-> "error", val |-> val, cb |-> cb]

Init ==
    /\ op = [c \in Calls |-> "none"]
    /\ request = [c \in Calls |-> [stream |-> "absent"]]
    /\ pc = [c \in Calls |-> "idle"]
    /\ inner = [c \in Calls |-> <<>>]
    /\ live = [c \in Calls |-> FALSE]
    /\ transport = [c \in Calls |-> <<>>]
    /\ consumer = [c \in Calls |-> <<>>]
    /\ outcome = [c \in Calls |-> <<>>]
    /\ iter = [c \in Calls |-> <<>>]
    /\ cancelled = [c \in Calls |-> FALSE]
    /\ client = [inner |-> "NativeClient"]

\* Mutant of ClientAfter: chatCompletionStream keeps the callback pair on
\* the instance.
ClientAfterKeepsCallbacks(method, this) ==
    IF method = "chatCompletionStream"
    THEN [inner |-> this.inner, onChunk |-> "function"]
    ELSE this

\* The own properties of the instance after code of the named method has
\* run: only the constructor assigns to this.
ClientAfter(method, this) == this

\* ------------------------------------------------------ encode / decode
\* The tokenizer of the connection handle.  A text is a sequence of pieces;
\* a piece of the vocabulary has its own id, any other piece gets the
\* unknown id, which decodes to the unknown piece.
Vocabulary == {"Hello", " world"}
TokenizerEncode(text) ==
    [i \in 1..Len(text) |->
        CASE text[i] = "Hello" -> 1
          [] text[i] = " world" -> 2
          [] OTHER -> 0]
TokenizerDecode(tokenIds) ==
    [i \in 1..Len(tokenIds) |->
        CASE tokenIds[i] = 1 -> "Hello"
          [] tokenIds[i] = 2 -> " world"
          [] OTHER -> "<unk>"]
Supported(text) == \A i \in 1..Len(text) : text[i] \in Vocabulary

\* Texts handed to encode, and the failure the tokenizer may raise.
TokenizerTexts == {<<"Hello", " world">>, <<"Hello", "?">>}
TokenizerError == JSError("TokenizerError")

\* What the tokenizer operation of the handle gives back: a value, or the
\* error it raises.
TokenizerResult(fails, value) ==
    IF fails THEN [ok |-> FALSE, val |-> TokenizerError]
    ELSE [ok |-> TRUE, val |-> value]

\* Mutant of TokenizerArg: the first element is left out of what is
\* passed on.
TokenizerArgTail(arg) == IF arg = <<>> THEN arg ELSE Tail(arg)

\* The argument encode / decode pass to the handle: the caller's.
TokenizerArg(arg) == arg

\* Mutant of TokenizerCalls: a failed tokenizer call is made again.
TokenizerCallsRetry(method, arg, result) ==
    IF result.ok
    THEN <<[method |-> method, arg |-> TokenizerArg(arg)]>>
    ELSE <<[method |-> method, arg |-> TokenizerArg(arg)],
           [method |-> method, arg |-> TokenizerArg(arg)]>>

\* Calls encode / decode make on the connection handle: the tokenizer
\* operation, once, whatever it gives back.
TokenizerCalls(method, arg, result) ==
    <<[method |-> method, arg |-> TokenizerArg(arg)]>>

\* What the caller of encode / decode gets: return this.inner.tokenizer...
\* hands the value back and lets an exception through.
TokenizerReturn(result) ==
    IF result.ok
    THEN [kind |-> "returned", val |-> result.val]
    ELSE [kind |-> "thrown", val |-> result.val]

\* this.inner.tokenizerEncode(text) / this.inner.tokenizerDecode(tokenIds)
InnerTokenizerEncode(text, fails) ==
    TokenizerResult(fails, TokenizerEncode(TokenizerArg(text)))
InnerTokenizerDecode(tokenIds, fails) ==
    TokenizerResult(fails, TokenizerDecode(TokenizerArg(tokenIds)))

\* encode(text)
Encode(c, text, fails) ==
    /\ NextCall(c)
    /\ DeliveriesMade < MaxDeliveries
    /\ op' = [op EXCEPT ![c] = "encode"]
    /\ request' = [request EXCEPT ![c] = [arg |-> text]]
    /\ pc' = [pc EXCEPT ![c] = "returned"]
    /\ inner' = [inner EXCEPT ![c] =
                   TokenizerCalls("tokenizerEncode", text,
                                  InnerTokenizerEncode(text, fails))]
    /\ transport' = [transport EXCEPT ![c] =
                       <<InnerTokenizerEncode(text, fails)>>]
    /\ outcome' = [outcome EXCEPT ![c] =
                     <<TokenizerReturn(InnerTokenizerEncode(text, fails))>>]
    /\ client' = ClientAfter("encode", client)
    /\ UNCHANGED <<live, consumer, iter, cancelled>>

\* Every list of token ids of the length of a text.
TokenIdLists == UNION {[1..n -> {0, 1, 2}] : n \in {0, 1, 2}}

\* Token ids handed to decode: what an earlier encode returned (the test
\* decodes the tokens it has just encoded) or the ids of a text.
DecodeInputs ==
    {TokenizerEncode(t) : t \in TokenizerTexts}
    \cup {outcome[x][1].val :
            x \in {y \in Calls : /\ op[y] = "encode"
                                 /\ outcome[y][1].kind = "returned"}}

\* decode(tokenIds)
Decode(c, tokenIds, fails) ==
    /\ NextCall(c)
    /\ DeliveriesMade < MaxDeliveries
    /\ tokenIds \in DecodeInputs
    /\ op' = [op EXCEPT ![c] = "decode"]
    /\ request' = [request EXCEPT ![c] = [arg |-> tokenIds]]
    /\ pc' = [pc EXCEPT ![c] = "returned"]
    /\ inner' = [inner EXCEPT ![c] =
                   TokenizerCalls("tokenizerDecode", tokenIds,
                                  InnerTokenizerDecode(tokenIds, fails))]
    /\ transport' = [transport EXCEPT ![c] =
                       <<InnerTokenizerDecode(tokenIds, fails)>>]
    /\ outcome' = [outcome EXCEPT ![c] =
                     <<TokenizerReturn(InnerTokenizerDecode(tokenIds, fails))>>]
    /\ client' = ClientAfter("decode", client)
    /\ UNCHANGED <<live, consumer, iter, cancelled>>

\* ------------------------------------------------------- chatCompletion
\* Calls chatCompletion makes on the connection handle for a request.
ChatCompletionInner(req) ==
    IF StreamRequested(req)
    THEN <<>>
    ELSE <<[method |-> "chatCompletion", arg |-> JSONStringify(req)]>>

\* async chatCompletion(request): the stream branch returns the handle at
\* once (the promise resolves with it, nothing runs until it is iterated);
\* the unary branch calls inner.chatCompletion and suspends at the await.
ChatCompletion(c, req) ==
    /\ NextCall(c)
    /\ op' = [op EXCEPT ![c] = "chatCompletion"]
    /\ request' = [request EXCEPT ![c] = req]
    /\ inner' = [inner EXCEPT ![c] = inner[c] \o ChatCompletionInner(req)]
    /\ IF StreamRequested(req)
       THEN /\ pc' = [pc EXCEPT ![c] = "handle"]
            /\ outcome' = [outcome EXCEPT ![c] =
                  Append(outcome[c],
                         [kind |-> "resolved", val |-> JSObject("handle")])]
       ELSE /\ pc' = [pc EXCEPT ![c] = "awaiting"]
            /\ outcome' = outcome
    /\ client' = ClientAfter("chatCompletion", client)
    /\ UNCHANGED <<live, transport, consumer, iter, cancelled>>

\* Mutant of UnaryOutcome: the response text is returned without JSON.parse.
UnaryOutcomeUnparsed(result) ==
    IF ~result.ok
    THEN [kind |-> "rejected", val |-> result.val]
    ELSE [kind |-> "resolved", val |-> result.val]

\* What the promise of chatCompletion settles with, given the settlement
\* of inner.chatCompletion: a rejection propagates through the await, a
\* response text goes through JSON.parse, whose SyntaxError rejects.
UnaryOutcome(result) ==
    IF ~result.ok
    THEN [kind |-> "rejected", val |-> result.val]
    ELSE LET parsed == JSONParse(result.val)
         IN IF parsed.ok
            THEN [kind |-> "resolved", val |-> parsed.val]
            ELSE [kind |-> "rejected", val |-> parsed.val]

\* The promise of inner.chatCompletion settles and chatCompletion resumes.
UnarySettle(c, result) ==
    /\ pc[c] = "awaiting"
    /\ DeliveriesMade < MaxDeliveries
    /\ pc' = [pc EXCEPT ![c] = "settled"]
    /\ transport' = [transport EXCEPT ![c] = Append(transport[c], result)]
    /\ outcome' = [outcome EXCEPT ![c] =
                     Append(outcome[c], UnaryOutcome(result))]
    /\ client' = ClientAfter("chatCompletion", client)
    /\ UNCHANGED <<op, request, inner, live, consumer, iter, cancelled>>

\* Mutant of IteratorInner: the generator passes its callback to the stream
\* call before it throws.
IteratorInnerRegisters ==
    <<[method |-> "chatCompletionStream", arg |-> "callback"]>>

\* Calls the async generator of the handle makes on the connection handle
\* before its throw statement: the callback is declared but never passed on.
IteratorInner == <<>>

\* One next() on the iterator of the handle.  The first step runs the
\* generator body, which declares queue and callback and then throws; a
\* generator that has thrown is finished and answers done.
IterNext(c) ==
    /\ pc[c] \in {"handle", "iterated"}
    /\ Len(iter[c]) < MaxIterSteps
    /\ pc' = [pc EXCEPT ![c] = "iterated"]
    /\ inner' = [inner EXCEPT ![c] =
                   IF pc[c] = "handle" THEN inner[c] \o IteratorInner
                   ELSE inner[c]]
    /\ iter' = [iter EXCEPT ![c] =
                  Append(iter[c],
                         IF pc[c] = "handle"
                         THEN [kind |-> "throw",
                               val |-> JSError("requires update")]
                         ELSE [kind |-> "done", val |-> JSUndefined])]
    /\ client' = ClientAfter("chatCompletion", client)
    /\ UNCHANGED <<op, request, live, transport, consumer, outcome,
                   cancelled>>

\* ------------------------------------------------- chatCompletionStream
\* Mutant of ChatCompletionStreamInner: the stream flag picks the call, as
\* it does in chatCompletion.
ChatCompletionStreamInnerByFlag(req) ==
    IF StreamRequested(req)
    THEN <<[method |-> "chatCompletionStream", arg |-> JSONStringify(req)]>>
    ELSE <<[method |-> "chatCompletion", arg |-> JSONStringify(req)]>>

\* Calls chatCompletionStream makes on the connection handle: the stream
\* call, once, with the serialized request, whatever its stream flag.
ChatCompletionStreamInner(req) ==
    <<[method |-> "chatCompletionStream", arg |-> JSONStringify(req)]>>

\* chatCompletionStream(request, onChunk, onError): registers the callback
\* with the connection handle and returns undefined.
ChatCompletionStream(c, req) ==
    /\ NextCall(c)
    /\ op' = [op EXCEPT ![c] = "chatCompletionStream"]
    /\ request' = [request EXCEPT ![c] = req]
    /\ inner' = [inner EXCEPT ![c] =
                   inner[c] \o ChatCompletionStreamInner(req)]
    /\ pc' = [pc EXCEPT ![c] = "streaming"]
    /\ live' = [live EXCEPT ![c] = TRUE]
    /\ client' = ClientAfter("chatCompletionStream", client)
    /\ UNCHANGED <<transport, consumer, outcome, iter, cancelled>>

\* chunkStr === "null" || chunkStr === null
IsSentinel(chunkStr) == chunkStr = JSString(NullText) \/ chunkStr = JSNull

\* Mutant of StreamCallbackEvents: the chunk text is handed to onChunk
\* without JSON.parse.
StreamCallbackEventsUnparsed(err, chunkStr, throws, cb) ==
    IF Truthy(err)
    THEN <<OnError(err, cb)>>
    ELSE IF IsSentinel(chunkStr)
    THEN <<OnChunk(JSNull, cb)>>
    ELSE IF throws
    THEN <<OnChunk(chunkStr, cb), OnError(JSError("ConsumerError"), cb)>>
    ELSE <<OnChunk(chunkStr, cb)>>

\* Mutant of StreamCallbackEvents: a parsed chunk is kept back instead of
\* being handed to onChunk (as the callback of the iterator branch, which
\* only queues it).
StreamCallbackEventsQueued(err, chunkStr, throws, cb) ==
    IF Truthy(err)
    THEN <<OnError(err, cb)>>
    ELSE IF IsSentinel(chunkStr)
    THEN <<OnChunk(JSNull, cb)>>
    ELSE LET parsed == JSONParse(chunkStr)
         IN IF ~parsed.ok
            THEN <<OnError(parsed.val, cb)>>
            ELSE <<>>

\* Mutant of StreamCallbackEvents: the sentinel returns without
\* onChunk(null).
StreamCallbackEventsSilentEnd(err, chunkStr, throws, cb) ==
    IF Truthy(err)
    THEN <<OnError(err, cb)>>
    ELSE IF IsSentinel(chunkStr)
    THEN <<>>
    ELSE LET parsed == JSONParse(chunkStr)
         IN IF ~parsed.ok
            THEN <<OnError(parsed.val, cb)>>
            ELSE IF throws
            THEN <<OnChunk(parsed.val, cb),
                   OnError(JSError("ConsumerError"), cb)>>
            ELSE <<OnChunk(parsed.val, cb)>>

\* Mutant of StreamCallbackEvents: the error branch has no else, so the
\* payload that comes with an error is handled as well.
StreamCallbackEventsErrorFallsThrough(err, chunkStr, throws, cb) ==
    (IF Truthy(err) THEN <<OnError(err, cb)>> ELSE <<>>)
    \o (IF IsSentinel(chunkStr)
        THEN <<OnChunk(JSNull, cb)>>
        ELSE LET parsed == JSONParse(chunkStr)
             IN IF ~parsed.ok
                THEN <<OnError(parsed.val, cb)>>
                ELSE IF throws
                THEN <<OnChunk(parsed.val, cb),
                       OnError(JSError("ConsumerError"), cb)>>
                ELSE <<OnChunk(parsed.val, cb)>>)

\* The consumer callbacks one invocation (err, chunkStr) of the registered
\* callback makes, in order.  cb is the number of the invocation; throws
\* says that the consumer's onChunk raises when handed a parsed chunk (the
\* call sits inside the try block, so the catch hands the exception to
\* onError).
StreamCallbackEvents(err, chunkStr, throws, cb) ==
    IF Truthy(err)
    THEN <<OnError(err, cb)>>
    ELSE IF IsSentinel(chunkStr)
    THEN <<OnChunk(JSNull, cb)>>
    ELSE LET parsed == JSONParse(chunkStr)
         IN IF ~parsed.ok
            THEN <<OnError(parsed.val, cb)>>
            ELSE IF throws
            THEN <<OnChunk(parsed.val, cb),
                   OnError(JSError("ConsumerError"), cb)>>
            ELSE <<OnChunk(parsed.val, cb)>>

\* Mutant of CallbackTarget: the callback pair is kept in one place for the
\* whole client, so the pair of the stream started last receives everything.
CallbackTargetLatest(c) ==
    CHOOSE d \in Calls :
        /\ op[d] = "chatCompletionStream"
        /\ \A x \in Calls : x > d => op[x] # "chatCompletionStream"

\* The stream whose onChunk / onError the callback registered by stream c
\* invokes: the arrow function closes over the parameters of its own call.
CallbackTarget(c) == c

\* The transport invokes the callback registered by stream c.  The arrow
\* function keeps no state between invocations.
StreamCallback(c, err, chunkStr, throws) ==
    /\ pc[c] = "streaming"
    /\ live[c]
    /\ DeliveriesMade < MaxDeliveries
    /\ transport' = [transport EXCEPT ![c] =
                       Append(transport[c], [err |-> err, chunk |-> chunkStr])]
    /\ consumer' = [consumer EXCEPT ![CallbackTarget(c)] =
                      @ \o StreamCallbackEvents(err, chunkStr, throws,
                                                Len(transport[c]) + 1)]
    /\ client' = ClientAfter("chatCompletionStream", client)
    /\ UNCHANGED <<op, request, pc, inner, live, outcome, iter, cancelled>>

\* The transport stops invoking the callback of stream c for good ("the
\* callback just stops being called"); the client is not told.
TransportStop(c) ==
    /\ pc[c] = "streaming"
    /\ live[c]
    /\ live' = [live EXCEPT ![c] = FALSE]
    /\ UNCHANGED <<op, request, pc, inner, transport, consumer, outcome, iter,
                   cancelled, client>>

\* The consumer decides to cancel stream c.  chatCompletionStream returned
\* undefined and the client has no cancel method, so the decision runs no
\* client code and reaches neither the bridge nor the transport.
ConsumerCancel(c) ==
    /\ pc[c] = "streaming"
    /\ ~cancelled[c]
    /\ cancelled' = [cancelled EXCEPT ![c] = TRUE]
    /\ UNCHANGED <<op, request, pc, inner, live, transport, consumer, outcome,
                   iter, client>>

\* --------------------------------------------------------- specification
\* The client with several calls in flight: any public method may be
\* invoked, and the callbacks of the streams interleave.
Next ==
    \/ \E c \in Calls, req \in Requests : ChatCompletion(c, req)
    \/ \E c \in Calls, result \in UnaryResults : UnarySettle(c, result)
    \/ \E c \in Calls : IterNext(c)
    \/ \E c \in Calls, req \in Requests : ChatCompletionStream(c, req)
    \/ \E c \in Calls, in \in InterleavedInputs :
          StreamCallback(c, in.err, in.chunk, in.throws)
    \/ \E c \in Calls, text \in TokenizerTexts, fails \in BOOLEAN :
          Encode(c, text, fails)
    \/ \E c \in Calls, tokenIds \in TokenIdLists, fails \in BOOLEAN :
          Decode(c, tokenIds, fails)

Spec == Init /\ [][Next]_vars

\* One chatCompletionStream call followed on its own, with every kind of
\* callback invocation, a transport that may go silent and a consumer that
\* may want to cancel.
StreamNext ==
    \/ \E req \in Requests : ChatCompletionStream(1, req)
    \/ \E in \in StreamInputs :
          StreamCallback(1, in.err, in.chunk, in.throws)
    \/ TransportStop(1)
    \/ ConsumerCancel(1)

StreamSpec == Init /\ [][StreamNext]_vars

\* A transport that has not gone silent does invoke the callback again.
FairStreamSpec ==
    /\ StreamSpec
    /\ WF_vars(\E in \in StreamInputs :
                  StreamCallback(1, in.err, in.chunk, in.throws))

TypeOK ==
    /\ op \in [Calls -> {"none", "chatCompletion", "chatCompletionStream",
                         "encode", "decode"}]
    /\ pc \in [Calls -> {"idle", "awaiting", "settled", "handle", "iterated",
                         "streaming", "returned"}]
    /\ live \in [Calls -> BOOLEAN]
    /\ cancelled \in [Calls -> BOOLEAN]

\* ------------------------------------------------- what the consumer saw
Streams == {c \in Calls : op[c] = "chatCompletionStream"}

\* The consumer takes onChunk(null) as end-of-stream and onError as the
\* error signal (client_test.js: chunk === null resolves, onError rejects).
IsTerminal(e) == e.kind = "error" \/ (e.kind = "chunk" /\ e.val = JSNull)
IsFragment(e) == e.kind = "chunk" /\ e.val # JSNull
Terminals(log) == SelectSeq(log, IsTerminal)
FragmentsOf(log) == SelectSeq(log, IsFragment)
ValuesOf(log) == [i \in 1..Len(log) |-> log[i].val]

\* A callback invocation that carries a well-formed fragment: no error, not
\* the sentinel, and a text that parses to an object.
IsFragmentPayload(t) ==
    /\ ~Truthy(t.err)
    /\ ~IsSentinel(t.chunk)
    /\ JSONParse(t.chunk).ok
    /\ JSONParse(t.chunk).val.t = "object"
ParsedOf(log) == [i \in 1..Len(log) |-> JSONParse(log[i].chunk).val]

\* Position of the first terminal event of a consumer log (Len + 1: none).
FirstTerminalPos(log) ==
    IF \E p \in 1..Len(log) : IsTerminal(log[p])
    THEN CHOOSE p \in 1..Len(log) :
            /\ IsTerminal(log[p])
            /\ \A q \in 1..(p - 1) : ~IsTerminal(log[q])
    ELSE Len(log) + 1

CountMethod(calls, m) == Len(SelectSeq(calls, LAMBDA x : x.method = m))

\* ------------------------------------------------------------- claims

\* C1: for one chatCompletionStream call the consumer observes at most one
\* terminal event (onChunk(null) or onError), whatever the transport does.
C1_AtMostOneTerminal ==
    \A c \in Streams : Len(Terminals(consumer[c])) <= 1

\* C2: once the consumer has observed a terminal event, no later callback
\* of the transport delivers a further fragment to onChunk.
C2_TerminalAbsorbing ==
    [][\A c \in Calls :
          (c \in Streams /\ Terminals(consumer[c]) # <<>>)
              => FragmentsOf(consumer'[c]) = FragmentsOf(consumer[c])]_vars

\* C3: every stream started with chatCompletionStream eventually delivers a
\* terminal event to the consumer, also when the transport goes silent.
C3_EventuallyTerminal ==
    \A c \in Calls :
        (op[c] = "chatCompletionStream") ~> (Terminals(consumer[c]) # <<>>)

\* C4: the fragments passed to onChunk before the terminal event are, in the
\* same order and with the same multiplicity, the parsed well-formed
\* fragments the transport passed to the callback before that event.
C4_FragmentsInOrder ==
    \A c \in Streams :
        LET log == consumer[c]
            k == FirstTerminalPos(log)
            n == IF k <= Len(log) THEN log[k].cb ELSE Len(transport[c])
        IN ValuesOf(SubSeq(log, 1, k - 1))
             = ParsedOf(SelectSeq(SubSeq(transport[c], 1, n),
                                  IsFragmentPayload))

C4_Witness ==
    consumer[1] = <<OnChunk(JSObject("He"), 1), OnChunk(JSObject("llo"), 2),
                    OnChunk(JSNull, 3)>>

\* C5: when a terminal event is delivered, every fragment the transport
\* emitted before it has already been passed to onChunk.
C5_NoTerminalBeforeFragment ==
    \A c \in Streams :
        \A p \in 1..Len(consumer[c]) :
            IsTerminal(consumer[c][p]) =>
                \A j \in 1..consumer[c][p].cb :
                    IsFragmentPayload(transport[c][j]) =>
                        \E q \in 1..(p - 1) :
                            consumer[c][q] =
                                OnChunk(JSONParse(transport[c][j].chunk).val, j)

C5_Witness ==
    \E p \in 2..Len(consumer[1]) :
        /\ consumer[1][p].kind = "error"
        /\ consumer[1][p].cb = p
        /\ \A q \in 1..(p - 1) : IsFragment(consumer[1][q])

\* C6: with a truthy stream flag chatCompletion registers a callback with
\* the stream call of the connection handle, and iterating the returned
\* handle yields fragments instead of failing.
C6_StreamFlagDelegates ==
    \A c \in Calls :
        (op[c] = "chatCompletion" /\ StreamRequested(request[c])
             /\ pc[c] = "iterated")
            => /\ CountMethod(inner[c], "chatCompletionStream") = 1
               /\ iter[c][1].kind # "throw"

\* C7: with a falsy stream flag one chatCompletion call has exactly one
\* outcome once the unary call settles: resolved with the parsed response,
\* or rejected (the unary call failed, or the response did not parse).
C7_UnaryExactlyOneOutcome ==
    \A c \in Calls :
        (op[c] = "chatCompletion" /\ ~StreamRequested(request[c])) =>
            /\ pc[c] = "awaiting" => outcome[c] = <<>>
            /\ pc[c] = "settled" =>
                /\ Len(outcome[c]) = 1
                /\ LET r == transport[c][1]
                       o == outcome[c][1]
                   IN /\ ~r.ok => o = [kind |-> "rejected", val |-> r.val]
                      /\ (r.ok /\ r.val.v \in {HeText, HeSpacedText})
                            => o = [kind |-> "resolved",
                                    val |-> JSObject("He")]
                      /\ (r.ok /\ r.val.v = TruncatedText)
                            => /\ o.kind = "rejected"
                               /\ o.val.t = "error"

C7_Witness ==
    \E c, d \in Calls :
        /\ pc[c] = "settled" /\ outcome[c][1].kind = "resolved"
        /\ transport[c][1].val.v = HeSpacedText
        /\ pc[d] = "settled" /\ outcome[d][1].kind = "rejected"
        /\ transport[d][1].ok

\* C8: when the transport delivers the sentinel (no error, payload null or
\* the text "null"), onChunk(null) is invoked within that same callback
\* invocation.
C8_SentinelEndsStream ==
    [][\A c \in Calls :
          (/\ c \in Streams
           /\ Len(transport'[c]) = Len(transport[c]) + 1
           /\ ~Truthy(transport'[c][Len(transport'[c])].err)
           /\ transport'[c][Len(transport'[c])].chunk
                 \in {JSNull, JSString("null")})
              => consumer'[c] =
                     Append(consumer[c],
                            OnChunk(JSNull, Len(transport'[c])))]_vars

C8_Witness ==
    /\ Len(transport[1]) = 2
    /\ transport[1][1] = [err |-> JSNull, chunk |-> JSString("{\"c\":\"He\"}")]
    /\ transport[1][2] = [err |-> JSNull, chunk |-> JSString("null")]
    /\ consumer[1][Len(consumer[1])] = OnChunk(JSNull, 2)

\* C9: once the consumer has requested cancellation of a stream, no
\* fragment the transport emits afterwards is delivered to onChunk.
C9_CancelStopsDelivery ==
    [][\A c \in Calls :
          (c \in Streams /\ cancelled[c])
              => FragmentsOf(consumer'[c]) = FragmentsOf(consumer[c])]_vars

\* C10: chatCompletion with a falsy stream flag invokes the unary call of
\* the connection handle exactly once and never the stream call;
\* chatCompletionStream invokes the stream call exactly once, whatever the
\* stream flag, and never the unary call.
C10_PathsExclusive ==
    \A c \in Calls :
        /\ (op[c] = "chatCompletion" /\ ~StreamRequested(request[c])) =>
              /\ CountMethod(inner[c], "chatCompletion") = 1
              /\ CountMethod(inner[c], "chatCompletionStream") = 0
        /\ op[c] = "chatCompletionStream" =>
              /\ CountMethod(inner[c], "chatCompletionStream") = 1
              /\ CountMethod(inner[c], "chatCompletion") = 0

C10_Witness ==
    \E c, d \in Calls :
        /\ op[c] = "chatCompletion" /\ request[c].stream = "absent"
        /\ pc[c] = "settled"
        /\ op[d] = "chatCompletionStream" /\ request[d].stream = "false"
        /\ Len(consumer[d]) > 0

\* C11: when several streams are active and their callbacks interleave,
\* every callback invocation reaches only the onChunk / onError pair of its
\* own stream, and each stream keeps its own order: the events a consumer
\* saw are, one for one and in order, the invocations made for its stream.
C11_StreamsIsolated ==
    \A c \in Streams :
        /\ Len(consumer[c]) = Len(transport[c])
        /\ \A i \in 1..Len(transport[c]) :
              LET t == transport[c][i]
              IN consumer[c][i] =
                    IF t.err = JSError("TransportError")
                    THEN OnError(t.err, i)
                    ELSE IF t.chunk = JSNull
                    THEN OnChunk(JSNull, i)
                    ELSE IF t.chunk = JSString("{\"c\":\"He\"}")
                    THEN OnChunk(JSObject("He"), i)
                    ELSE OnChunk(JSObject("llo"), i)

C11_Witness ==
    /\ Streams = {1, 2}
    /\ Len(transport[1]) = 2
    /\ Len(transport[2]) = 1
    /\ consumer[1] = <<OnChunk(JSObject("He"), 1), OnChunk(JSNull, 2)>>
    /\ consumer[2] = <<OnChunk(JSObject("llo"), 1)>>

\* C12: encode and decode invoke the tokenizer operation of the connection
\* handle exactly once with the caller's argument and hand back exactly
\* what it gives: its value, or the error it raises, with no second call.
C12_TokenizerPassThrough ==
    \A c \in Calls :
        op[c] \in {"encode", "decode"} =>
            /\ inner[c] =
                  <<[method |-> IF op[c] = "encode" THEN "tokenizerEncode"
                                ELSE "tokenizerDecode",
                     arg |-> request[c].arg]>>
            /\ Len(outcome[c]) = 1
            /\ LET r == transport[c][1]
                   o == outcome[c][1]
               IN /\ o.kind = IF r.ok THEN "returned" ELSE "thrown"
                  /\ o.val = r.val

C12_Witness ==
    \E c, d \in Calls :
        /\ op[c] = "encode" /\ outcome[c][1].kind = "thrown"
        /\ op[d] = "decode" /\ outcome[d][1].kind = "returned"

\* C13: for every text of the supported vocabulary, decoding through the
\* facade what encoding through the facade returned gives the text back.
C13_RoundTrip ==
    \A c, d \in Calls :
        (/\ op[c] = "encode" /\ op[d] = "decode"
         /\ Supported(request[c].arg)
         /\ outcome[c][1].kind = "returned"
         /\ request[d].arg = outcome[c][1].val
         /\ outcome[d][1].kind = "returned")
            => outcome[d][1].val = request[c].arg

C13_Witness ==
    /\ op[1] = "encode" /\ op[2] = "decode"
    /\ request[1].arg = <<"Hello", " world">>
    /\ outcome[1][1].kind = "returned"
    /\ request[2].arg = outcome[1][1].val
    /\ outcome[2][1] = [kind |-> "returned", val |-> <<"Hello", " world">>]

\* C14: no sequence of encode, decode, chatCompletion and
\* chatCompletionStream calls, failing ones and transport callbacks
\* included, changes the connection-handle reference of the client or adds
\* a property to it.
C14_FacadeStateless == client = [inner |-> "NativeClient"]

C14_Witness ==
    \E c, d \in Calls :
        /\ op[c] = "encode" /\ outcome[c][1].kind = "thrown"
        /\ op[d] = "chatCompletionStream"
        /\ Len(consumer[d]) = 2
        /\ consumer[d][2].kind = "error"

\* C15: onChunk receives null only when the transport delivered the
\* sentinel (no error, payload null or exactly the text "null").
C15_NullOnlyForSentinel ==
    \A c \in Streams :
        \A p \in 1..Len(consumer[c]) :
            (consumer[c][p].kind = "chunk" /\ consumer[c][p].val = JSNull)
                => /\ ~Truthy(transport[c][consumer[c][p].cb].err)
                   /\ transport[c][consumer[c][p].cb].chunk
                         \in {JSNull, JSString("null")}

\* C16: with a truthy stream flag chatCompletion resolves with a handle,
\* the first iteration step of the handle raises the 'requires update'
\* error before any fragment is yielded, and neither the unary call nor the
\* stream call of the connection handle is invoked.
C16_StreamBranchUnimplemented ==
    \A c \in Calls :
        (op[c] = "chatCompletion" /\ StreamRequested(request[c])) =>
            /\ outcome[c] =
                  <<[kind |-> "resolved", val |-> JSObject("handle")]>>
            /\ inner[c] = <<>>
            /\ iter[c] # <<>> =>
                  iter[c][1] = [kind |-> "throw",
                                val |-> JSError("requires update")]
            /\ \A i \in 1..Len(iter[c]) : iter[c][i].kind # "yield"

C16_Witness ==
    \E c \in Calls :
        /\ op[c] = "chatCompletion"
        /\ request[c].stream = "true"
        /\ pc[c] = "iterated"
        /\ iter[c][1].kind = "throw"

\* C17: an invocation of the stream callback with an error invokes onError
\* exactly once with that error and does not invoke onChunk, whatever
\* payload comes with it; zero fragments and then an error give one onError
\* call, no onChunk call and no end-of-stream.
C17_ErrorInvocation ==
    \A c \in Streams :
        \A j \in 1..Len(transport[c]) :
            transport[c][j].err = JSError("TransportError") =>
                /\ SelectSeq(consumer[c], LAMBDA e : e.cb = j)
                      = <<OnError(JSError("TransportError"), j)>>
                /\ j = 1 => consumer[c][1] = OnError(transport[c][1].err, 1)

C17_Witness ==
    /\ transport[1] = <<[err |-> JSError("TransportError"),
                         chunk |-> JSString("{\"c\":\"He\"}")]>>
    /\ consumer[1] = <<OnError(JSError("TransportError"), 1)>>

\* C18: a payload that fails to deserialize is reported through onError and
\* never passed to onChunk, and that error is terminal for the stream: it
\* is the single error event and no fragment is delivered after it.
C18_MalformedIsTerminal ==
    \A c \in Streams :
        \A j \in 1..Len(transport[c]) :
            (/\ ~Truthy(transport[c][j].err)
             /\ transport[c][j].chunk = JSString("{\"c\":"))
                => /\ SelectSeq(consumer[c], LAMBDA e : e.cb = j)
                         = <<OnError(JSError("SyntaxError"), j)>>
                   /\ Len(SelectSeq(consumer[c],
                                    LAMBDA e : e.kind = "error")) = 1
                   /\ \A p \in 1..Len(consumer[c]) :
                         consumer[c][p].cb > j => ~IsFragment(consumer[c][p])

\* C19: every invocation of the stream callback results in exactly one
\* consumer callback invocation, onChunk or onError and never both, also
\* when the consumer's onChunk raises.
C19_OneEventPerInvocation ==
    \A c \in Streams :
        \A j \in 1..Len(transport[c]) :
            Len(SelectSeq(consumer[c], LAMBDA e : e.cb = j)) = 1

====
